---- MODULE Spec2Model ----
(***************************************************************************)
(* Model of the domo_backend realtime connection registry                  *)
(* (app/utils/connection_manager.py with the voice and chat websocket      *)
(* handlers that drive it) and of the file version manager                 *)
(* (app/routers/file.py over app/models/file.py).                          *)
(***************************************************************************)
EXTENDS Integers, Sequences, FiniteSets, TLC

\* ------------------------------------------------------------------ bounds
NumConns == 3
\* requests in flight at once: server processes on the one database (a
\* handler's queries are round trips the other process's can fall between)
NumWorkers == 2
\* files stored over a run
MaxUploads == 3

Conns == 1..NumConns
\* project ids used as room identifiers
Rooms == {41, 42}
\* JSON payloads a client sends
Payloads == {"offer"}
UserLeft == "user_left"

Workers == 1..NumWorkers
Projects == {7}
Filenames == {"spec.pdf", "notes.txt"}
Users == {1, 2}
Idents == Projects \X Filenames
\* the cards files are attached to
Cards == {5}
\* columns, cards and card connections created over a run
MaxColumns == 2
MaxCards == 2
MaxConnections == 2
\* the projects that have a board
BoardProjects == {7, 8}
\* sessions opened over a run
MaxSessions == 2
\* the addresses and codes of the account requests; an address is its local
\* part and its domain
Emails == {<<"kim", "jj.ac.kr">>, <<"lee", "jj.ac.kr">>, <<"kim", "gmail.com">>}
Codes == {"111111", "222222"}
Passwords == {"pw", "guess"}
\* schedule entries stored over a run
MaxSchedules == 2
\* the file lists a batch request may carry: two files, alike or not
Batches == {<<a, b>> : a, b \in Filenames}

VARIABLES
    endpoint,            \* which websocket route the run serves: "voice" | "chat"
    active_connections,  \* ConnectionManager.active_connections: room -> list
    pc,                  \* per websocket: where its handler coroutine is
    room,                \* per websocket: the project_id of its route
    alive,               \* per websocket: the client's transport is still up
    it,                  \* per handler: the list iterator of its broadcast
    joined,              \* history: connect calls minus disconnect calls
    obs,                 \* history: the record of one observed broadcast
    observing,           \* history: whether broadcasts are recorded in obs
    files,               \* table files: the FileMetadata rows
    file_versions,       \* table file_versions: the FileVersion rows
    card_files,          \* table card_files: the CardFileLink rows
    disk,                \* the paths present under UPLOAD_DIR
    seqs,                \* the database sequences and the uuid source
    req,                 \* per worker: the request it is serving
    resp,                \* the response the last step returned
    stores,              \* history: successful stores per (project, filename)
    serial,              \* history: the identity saw no delete, no overlapping stores
    board_columns,       \* table board_columns: the BoardColumn rows
    cards,               \* table cards: the Card rows, column_id 0 for None
    card_dependencies,   \* table card_dependencies: the CardDependency rows
    bseqs,               \* the sequences of the three board tables
    breq,                \* the delete_column request between its two commits
    users,               \* table users: email, password, is_student_verified
    verifications,       \* table of EmailVerification rows, keyed by email
    sessions,            \* table of UserSession rows
    asig,                \* the signup request between its two commits
    alast,               \* history: the last account request and its outcome
    used,                \* history: the (email, code) pairs a verify succeeded with
    schedules,           \* table of Schedule rows
    sresp                \* the response of the last schedule request

regVars == <<endpoint, active_connections, pc, room, alive, it, joined, obs, observing>>
fileVars == <<files, file_versions, card_files, disk, seqs, req, resp, stores, serial>>
boardVars == <<board_columns, cards, card_dependencies, bseqs, breq>>
authVars == <<users, verifications, sessions, asig, alast, used>>
schedVars == <<schedules, sresp>>
restVars == <<boardVars, authVars, schedVars>>
vars == <<regVars, fileVars, restVars>>

\* ------------------------------------------------------------- list helpers
Range(s) == {s[k] : k \in 1..Len(s)}

\* list.remove(x): drops the first occurrence
RemoveFirst(s, x) ==
    LET k == CHOOSE k \in 1..Len(s) : s[k] = x /\ \A h \in 1..(k - 1) : s[h] # x
    IN  [h \in 1..(Len(s) - 1) |-> IF h < k THEN s[h] ELSE s[h + 1]]

\* the list stored for a room, or the empty list when the key is absent
Members(ac, r) == IF r \in DOMAIN ac THEN ac[r] ELSE <<>>

InRegistry(ac, c) == \E r \in DOMAIN ac : c \in Range(ac[r])

\* ------------------------------------------------------- ConnectionManager
\* a connect that starts the room's list over on every join
connect_fresh(ac, websocket, project_id) ==
    [r \in (DOMAIN ac) \cup {project_id} |->
        IF r = project_id THEN <<websocket>> ELSE ac[r]]

\* a connect that appends the websocket to the list of every room
connect_everywhere(ac, websocket, project_id) ==
    [r \in DOMAIN ac \cup {project_id} |->
        Append(Members(ac, r), websocket)]

connect(ac, websocket, project_id) ==
    [r \in (DOMAIN ac) \cup {project_id} |->
        IF r = project_id
        THEN Append(Members(ac, project_id), websocket)
        ELSE ac[r]]

\* a disconnect that leaves the key of an emptied room in place
disconnect_keep(ac, websocket, project_id) ==
    IF project_id \in DOMAIN ac /\ websocket \in Range(ac[project_id])
    THEN [ac EXCEPT ![project_id] = RemoveFirst(ac[project_id], websocket)]
    ELSE ac

disconnect(ac, websocket, project_id) ==
    IF project_id \in DOMAIN ac /\ websocket \in Range(ac[project_id])
    THEN LET l == RemoveFirst(ac[project_id], websocket)
         IN  IF l = <<>>
             THEN [r \in (DOMAIN ac) \ {project_id} |-> ac[r]]
             ELSE [ac EXCEPT ![project_id] = l]
    ELSE ac

\* The for loop of broadcast: a Python list iterator keeps an index into the
\* live list; entries equal to the sender are passed over without suspending.
\* The position of the next recipient after i consumed entries, 0 when the
\* iterator is exhausted.
NextIdx(l, i, sender) ==
    LET cand == {j \in (i + 1)..Len(l) : l[j] # sender}
    IN  IF cand = {} THEN 0 ELSE CHOOSE j \in cand : \A h \in cand : j <= h

\* send_json on a websocket whose transport is up returns; on a dead one it
\* returns (the frame is lost), raises WebSocketDisconnect, or raises another
\* error, depending on the server build.
SendResults(target) ==
    IF alive[target] THEN {"sent"} ELSE {"sent", "wsd", "err"}

NoIt == [i |-> 0, live |-> FALSE, msg |-> UserLeft]
\* history record of a broadcast call: the members at the call, the websockets
\* send_json returned for (twice: one of them more than once), the payloads
\* passed to send_json, the websockets send_json raised for, and whether the
\* room's list was mutated during the call
NoRec == [st |-> "none", sender |-> 0, room |-> 0, msg |-> UserLeft,
          start |-> {}, got |-> {}, twice |-> FALSE, sent |-> {},
          failed |-> {}, changed |-> FALSE]

\* what broadcast(message, project_id, sender_socket) sees when it is called
NewRec(ac, sender, r, message) ==
    [st |-> "run", sender |-> sender, room |-> r, msg |-> message,
     start |-> Range(Members(ac, r)), got |-> {}, twice |-> FALSE,
     sent |-> {}, failed |-> {}, changed |-> FALSE]

\* One run of the broadcast loop up to its next suspension: the iterator over
\* the list object taken at the call advances to the next recipient and
\* send_json is awaited on it. An exception of send_json leaves the loop.
broadcast(ac, sender, i, live, message) ==
    LET l == IF live THEN Members(ac, room[sender]) ELSE <<>>
        j == NextIdx(l, i, sender)
    IN  IF j = 0
        THEN {[res |-> "return", i |-> i, to |-> 0, msg |-> message]}
        ELSE {[res |-> o, i |-> j, to |-> l[j], msg |-> message]
              : o \in SendResults(l[j])}

\* history: the observed broadcast's record after the run o
Upd(rec, o) ==
    IF rec.st # "run" THEN rec
    ELSE CASE o.res = "return" -> [rec EXCEPT !.st = "ok"]
           [] o.res = "sent" ->
                [rec EXCEPT !.got = @ \cup {o.to},
                            !.twice = @ \/ o.to \in rec.got,
                            !.sent = @ \cup {o.msg}]
           [] OTHER -> [rec EXCEPT !.st = "raised", !.failed = @ \cup {o.to}]

Running(c) == pc[c] \in {"bcast", "bleft"}
Mine(c) == obs.st = "run" /\ obs.sender = c
MyRec(c) == IF Mine(c) THEN obs ELSE NoRec

\* history: a broadcast that starts may become the observed one when no
\* observed broadcast is running
MayObserve(rec) ==
    IF observing /\ rec.st = "none" /\ obs.st # "run" THEN BOOLEAN ELSE {FALSE}

\* history: the observed record after a step that took the registry to ac2
\* and whose own broadcast record is rec
ObsNext(rec, ac2) ==
    IF rec.st # "none" THEN rec
    ELSE IF obs.st = "run"
         THEN [obs EXCEPT !.changed =
                  @ \/ Members(active_connections, obs.room) # Members(ac2, obs.room)]
         ELSE NoRec

\* The effect of one handler step of websocket c on the shared state: the
\* registry becomes ac2, the handler moves to p with iterator itc.
Commit(c, r, ac2, p, itc, j2, rec) ==
    /\ active_connections' = ac2
    /\ joined' = j2
    /\ obs' = ObsNext(rec, ac2)
    /\ pc' = [pc EXCEPT ![c] = p]
    /\ room' = [room EXCEPT ![c] = r]
    /\ alive' = [alive EXCEPT ![c] = IF p = "ended" THEN FALSE ELSE @]
    /\ it' = [d \in Conns |->
                IF d = c THEN itc
                ELSE IF Running(d) /\ room[d] \in DOMAIN active_connections
                        /\ room[d] \notin DOMAIN ac2
                     THEN [it[d] EXCEPT !.live = FALSE]
                     ELSE it[d]]
    /\ UNCHANGED <<endpoint, observing, fileVars, restVars>>

\* --------------------------------------------------------------- handlers
\* manager.connect at the top of both handlers; websocket objects are
\* numbered in the order the server accepts them
Connect(c, r) ==
    /\ pc[c] = "init" /\ \A d \in 1..(c - 1) : pc[d] # "init"
    /\ Commit(c, r, connect(active_connections, c, r), "recv", NoIt,
              joined \cup {<<c, r>>}, NoRec)

\* a handler ends: the coroutine returns or an exception leaves it
End(c, ac2, j2, rec) == Commit(c, 0, ac2, "ended", NoIt, j2, rec)

\* the except WebSocketDisconnect block of the voice handler, entered with
\* the registry ac: disconnect, then broadcast the user_left notice
VoiceExcept(c, ac, rec) ==
    LET ac2 == disconnect(ac, c, room[c])
        j2 == joined \ {<<c, room[c]>>}
        live == room[c] \in DOMAIN ac2
    IN  \E o \in broadcast(ac2, c, 0, live, UserLeft), tr \in MayObserve(rec) :
            LET rl == Upd(IF tr THEN NewRec(ac2, c, room[c], UserLeft) ELSE rec, o)
            IN  IF o.res = "sent"
                THEN Commit(c, room[c], ac2, "bleft",
                            [i |-> o.i, live |-> live, msg |-> UserLeft], j2, rl)
                ELSE End(c, ac2, j2, rl)

\* the voice handler after one run o of manager.broadcast(data, ...)
VoiceAfter(c, o, live, rec) ==
    CASE o.res = "return" ->
            Commit(c, room[c], active_connections, "recv", NoIt, joined, rec)
      [] o.res = "sent" ->
            Commit(c, room[c], active_connections, "bcast",
                   [i |-> o.i, live |-> live, msg |-> o.msg], joined, rec)
      [] o.res = "wsd" -> VoiceExcept(c, active_connections, rec)
      [] o.res = "err" -> End(c, active_connections, joined, rec)

\* receive_json returns a payload; the voice handler rebroadcasts it
VoiceReceive(c, m) ==
    /\ endpoint = "voice" /\ pc[c] = "recv" /\ alive[c]
    /\ LET live == room[c] \in DOMAIN active_connections
       IN  \E o \in broadcast(active_connections, c, 0, live, m),
              tr \in MayObserve(NoRec) :
               VoiceAfter(c, o, live,
                   Upd(IF tr THEN NewRec(active_connections, c, room[c], m)
                       ELSE NoRec, o))

\* the pending send_json of a voice data broadcast returns and the loop goes on
VoiceStep(c) ==
    /\ endpoint = "voice" /\ pc[c] = "bcast"
    /\ \E o \in broadcast(active_connections, c, it[c].i, it[c].live, it[c].msg) :
           VoiceAfter(c, o, it[c].live, Upd(MyRec(c), o))

\* the user_left broadcast inside the except block goes on
LeftStep(c) ==
    /\ endpoint = "voice" /\ pc[c] = "bleft"
    /\ \E o \in broadcast(active_connections, c, it[c].i, it[c].live, UserLeft) :
           IF o.res = "sent"
           THEN Commit(c, room[c], active_connections, "bleft",
                       [i |-> o.i, live |-> it[c].live, msg |-> UserLeft],
                       joined, Upd(MyRec(c), o))
           ELSE End(c, active_connections, joined, Upd(MyRec(c), o))

\* the chat handler's two except blocks: both call chat_manager.disconnect
ChatExcept(c, rec) ==
    End(c, disconnect(active_connections, c, room[c]),
        joined \ {<<c, room[c]>>}, rec)

\* receive_json raises WebSocketDisconnect: the client is gone
ReceiveDisconnect(c) ==
    /\ pc[c] = "recv" /\ ~alive[c]
    /\ IF endpoint = "voice"
       THEN VoiceExcept(c, active_connections, NoRec)
       ELSE ChatExcept(c, NoRec)

\* receive_json raises another error: the frame is not JSON text
ReceiveError(c) ==
    /\ pc[c] = "recv" /\ alive[c]
    /\ IF endpoint = "voice"
       THEN End(c, active_connections, joined, NoRec)
       ELSE ChatExcept(c, NoRec)

\* a chat MESSAGE_SENT frame: stored, then echoed to the sender
ChatReceive(c, m) ==
    /\ endpoint = "chat" /\ pc[c] = "recv" /\ alive[c]
    /\ Commit(c, room[c], active_connections, "echo",
              [i |-> 0, live |-> FALSE, msg |-> m], joined, NoRec)

ChatAfter(c, o, live, rec) ==
    CASE o.res = "return" ->
            Commit(c, room[c], active_connections, "recv", NoIt, joined, rec)
      [] o.res = "sent" ->
            Commit(c, room[c], active_connections, "bcast",
                   [i |-> o.i, live |-> live, msg |-> o.msg], joined, rec)
      [] o.res \in {"wsd", "err"} -> ChatExcept(c, rec)

\* the echo's send_json ends: when it returned, chat_manager.broadcast(
\* response, ...) is called; when it raised, an except block runs.
\* chat_manager is taken to be a ConnectionManager like manager
ChatBroadcast(c) ==
    /\ endpoint = "chat" /\ pc[c] = "echo"
    /\ LET live == room[c] \in DOMAIN active_connections
       IN  \E e \in SendResults(c) :
               IF e # "sent" THEN ChatExcept(c, NoRec)
               ELSE \E o \in broadcast(active_connections, c, 0, live, it[c].msg),
                       tr \in MayObserve(NoRec) :
                        ChatAfter(c, o, live,
                            Upd(IF tr THEN NewRec(active_connections, c, room[c],
                                                  it[c].msg)
                                ELSE NoRec, o))

ChatStep(c) ==
    /\ endpoint = "chat" /\ pc[c] = "bcast"
    /\ \E o \in broadcast(active_connections, c, it[c].i, it[c].live, it[c].msg) :
           ChatAfter(c, o, it[c].live, Upd(MyRec(c), o))

\* the client's transport goes down while its handler is running
Drop(c) ==
    /\ pc[c] \in {"recv", "echo", "bcast", "bleft"} /\ alive[c]
    /\ alive' = [alive EXCEPT ![c] = FALSE]
    /\ obs' = ObsNext(NoRec, active_connections)
    /\ UNCHANGED <<endpoint, active_connections, pc, room, it, joined, observing, fileVars, restVars>>

RegInit ==
    /\ endpoint \in {"voice", "chat"}
    /\ active_connections = <<>>
    /\ pc = [c \in Conns |-> "init"]
    /\ room = [c \in Conns |-> 0]
    /\ alive = [c \in Conns |-> TRUE]
    /\ it = [c \in Conns |-> NoIt]
    /\ joined = {}
    /\ obs = NoRec

RegNext ==
    \/ \E c \in Conns, r \in Rooms : Connect(c, r)
    \/ \E c \in Conns, m \in Payloads : VoiceReceive(c, m)
    \/ \E c \in Conns : VoiceStep(c)
    \/ \E c \in Conns : LeftStep(c)
    \/ \E c \in Conns : ReceiveDisconnect(c)
    \/ \E c \in Conns : ReceiveError(c)
    \/ \E c \in Conns, m \in Payloads : ChatReceive(c, m)
    \/ \E c \in Conns : ChatBroadcast(c)
    \/ \E c \in Conns : ChatStep(c)
    \/ \E c \in Conns : Drop(c)

\* ------------------------------------------------------ file versions
Idle == [op |-> "idle"]
\* users and filenames are interchangeable: the first request of a run is
\* taken to be user 1 storing spec.pdf
FirstRequest(name, user_id) ==
    seqs.uuid = 1 => (name = "spec.pdf" /\ user_id = 1)
\* workers are interchangeable: a new request goes to the first idle one
Free(w) == req[w] = Idle /\ \A o \in 1..(w - 1) : req[o] # Idle
NoResp == [kind |-> "none"]

FileRow(id) == CHOOSE f \in files : f.id = id
Exists(id) == \E f \in files : f.id = id
VersionsOf(id) == {v \in file_versions : v.file_id = id}
LinksOf(id) == {l \in card_files : l.file_id = id}
Ident(f) == <<f.project_id, f.filename>>

\* a foreign key on files.id with the check switched off
NotEnforced(id, rows) == TRUE

\* Field(foreign_key="files.id"): the database refuses a commit that would
\* leave a row referring to id when the files table, being rows, has no such
\* row
ForeignKey(id, rows) == \E f \in rows : f.id = id

\* select(FileVersion).where(file_id == id).order_by(desc(version)): the rows
\* sorted by version, highest first; rows of equal version in either order
RECURSIVE OrderByDesc(_)
OrderByDesc(rows) ==
    IF rows = {} THEN <<>>
    ELSE LET top == CHOOSE v \in rows : \A u \in rows : u.version <= v.version
         IN  <<top>> \o OrderByDesc(rows \ {top})

\* a request that undoes the version rows it committed when it fails
RolledBack(done) == file_versions \ done

\* the file_versions table when a request that committed the rows done ends
\* in an exception: every store committed on its own, the rows stay
Aborted(done) == file_versions

\* an upload that inserts the FileMetadata row before it writes the bytes
MetadataBeforeWrite(project_id, name, user_id) ==
    IF \E f \in files : Ident(f) = <<project_id, name>> THEN files
    ELSE files \cup {[id |-> seqs.file, project_id |-> project_id,
                      filename |-> name, owner_id |-> user_id]}

\* the files table when open or copyfileobj raised for name: the write comes
\* before any query of the store, the table is as it was
WriteFailed(project_id, name, user_id) == files

\* the store of one file begins: the bytes are written under a fresh uuid
\* name, then FileMetadata is looked up by (project_id, filename); .first()
\* takes any matching row. When the write raises the request ends there, with
\* the file left behind (left) or not; done are the version rows the request
\* committed for its earlier files
BeginStore(w, op, project_id, user_id, todo, done) ==
    LET name == Head(todo)
        x == <<project_id, name>>
        hits == {f.id : f \in {g \in files : Ident(g) = x}}
        busy == \E o \in Workers \ {w} :
                    \/ req[o].op \in {"upload", "batch"} /\ req[o].pc \in {"ver", "ins"}
                       /\ <<req[o].project_id, Head(req[o].todo)>> = x
                    \/ req[o].op = "delete" /\ req[o].ident = x
    IN  /\ seqs' = [seqs EXCEPT !.uuid = @ + 1]
        /\ \/ /\ disk' = disk \cup {seqs.uuid}
              /\ \E existing \in (IF hits = {} THEN {0} ELSE hits) :
                     req' = [req EXCEPT ![w] =
                                [op |-> op, pc |-> "ver", project_id |-> project_id,
                                 user_id |-> user_id, todo |-> todo,
                                 saved_path |-> seqs.uuid, file_id |-> existing,
                                 version |-> 1, done |-> done]]
              /\ serial' = [serial EXCEPT ![x] = @ /\ ~busy]
              /\ resp' = NoResp
              /\ UNCHANGED <<files, file_versions>>
           \/ /\ \E left \in BOOLEAN :
                     disk' = IF left THEN disk \cup {seqs.uuid} ELSE disk
              /\ req' = [req EXCEPT ![w] = Idle]
              /\ resp' = [kind |-> "error", op |-> op, why |-> "write",
                          kept |-> done # {}]
              /\ files' = WriteFailed(project_id, name, user_id)
              /\ file_versions' = Aborted(done)
              /\ UNCHANGED serial
        /\ UNCHANGED <<card_files, stores>>

\* POST /projects/{project_id}/files
upload_file(w, project_id, name, user_id) ==
    /\ Free(w) /\ seqs.uuid <= MaxUploads
    /\ FirstRequest(name, user_id)
    /\ BeginStore(w, "upload", project_id, user_id, <<name>>, {})
    /\ UNCHANGED <<regVars, restVars>>

\* POST /projects/{project_id}/files/batch
upload_files_batch(w, project_id, names, user_id) ==
    /\ Free(w) /\ seqs.uuid + Len(names) - 1 <= MaxUploads
    /\ FirstRequest(Head(names), user_id)
    /\ BeginStore(w, "batch", project_id, user_id, names, {})
    /\ UNCHANGED <<regVars, restVars>>

\* the next file of a batch
BatchNext(w) ==
    /\ req[w].op = "batch" /\ req[w].pc = "meta"
    /\ BeginStore(w, "batch", req[w].project_id, req[w].user_id, req[w].todo,
                  req[w].done)
    /\ UNCHANGED <<regVars, restVars>>

\* a store that reuses the number of the last version
LastVersion(id) ==
    LET h == OrderByDesc(VersionsOf(id))
    IN  IF h = <<>> THEN 1 ELSE h[1].version

\* current_version_num: one more than the version of the row order_by desc
\* puts first, 1 when the file has no version row
NextVersion(id) ==
    LET h == OrderByDesc(VersionsOf(id))
    IN  IF h = <<>> THEN 1 ELSE h[1].version + 1

\* the existing_file branch reads the last version; the else branch inserts
\* and commits a new FileMetadata row
StoreLookup(w) ==
    /\ req[w].op \in {"upload", "batch"} /\ req[w].pc = "ver"
    /\ IF req[w].file_id # 0
       THEN /\ req' = [req EXCEPT ![w].pc = "ins",
                                  ![w].version = NextVersion(req[w].file_id)]
            /\ UNCHANGED <<files, seqs>>
       ELSE /\ files' = files \cup
                    {[id |-> seqs.file, project_id |-> req[w].project_id,
                      filename |-> Head(req[w].todo), owner_id |-> req[w].user_id]}
            /\ seqs' = [seqs EXCEPT !.file = @ + 1]
            /\ req' = [req EXCEPT ![w].pc = "ins", ![w].file_id = seqs.file]
    /\ resp' = NoResp
    /\ UNCHANGED <<file_versions, card_files, disk, stores, serial>>
    /\ UNCHANGED <<regVars, restVars>>

\* the FileVersion row is inserted and committed; the commit fails when the
\* files row it refers to is gone (foreign key file_versions.file_id). The
\* columns file_size, uploader_id and created_at steer nothing and are left out
StoreCommit(w) ==
    /\ req[w].op \in {"upload", "batch"} /\ req[w].pc = "ins"
    /\ LET r == req[w]
           x == <<r.project_id, Head(r.todo)>>
       IN  IF ForeignKey(r.file_id, files)
           THEN /\ file_versions' = file_versions \cup
                        {[id |-> seqs.version, file_id |-> r.file_id,
                          version |-> r.version, saved_path |-> r.saved_path]}
                /\ seqs' = [seqs EXCEPT !.version = @ + 1]
                /\ stores' = [stores EXCEPT ![x] = @ + 1]
                /\ resp' = [kind |-> "file", id |-> r.file_id,
                            filename |-> Head(r.todo),
                            version_id |-> seqs.version, version |-> r.version]
                /\ req' = [req EXCEPT ![w] =
                              IF Len(r.todo) > 1
                              THEN [r EXCEPT !.pc = "meta", !.todo = Tail(r.todo),
                                             !.done = @ \cup
                                                 {[id |-> seqs.version,
                                                   file_id |-> r.file_id,
                                                   version |-> r.version,
                                                   saved_path |-> r.saved_path]}]
                              ELSE Idle]
           ELSE /\ resp' = [kind |-> "error", op |-> r.op, why |-> "commit",
                            kept |-> r.done # {}]
                /\ req' = [req EXCEPT ![w] = Idle]
                /\ file_versions' = Aborted(r.done)
                /\ UNCHANGED <<seqs, stores>>
    /\ UNCHANGED <<files, card_files, disk, serial>>
    /\ UNCHANGED <<regVars, restVars>>

\* GET /files/{file_id}/versions: a read of the tables, with its response
get_file_history(file_id) ==
    IF Exists(file_id)
    THEN [kind |-> "history", id |-> file_id,
          versions |-> OrderByDesc(VersionsOf(file_id))]
    ELSE [kind |-> "404"]

\* an os.remove that is called without asking os.path.exists first
UnlinkUnguarded(v, refused) ==
    IF v.saved_path \notin disk THEN "raised"
    ELSE IF refused THEN "failed" ELSE "removed"

\* the loop body of delete_file for version row v: os.remove is called when
\* os.path.exists finds the file, and not at all when it does not; an
\* os.remove that raises (refused) is caught and printed, the file stays
Unlink(v, refused) ==
    IF v.saved_path \notin disk THEN "skipped"
    ELSE IF refused THEN "failed" ELSE "removed"

\* DELETE /files/{file_id}, up to the commit: the version rows are read, the
\* file of each is removed from disk, the links are read; refused tells
\* whether the storage refuses os.remove during this request
delete_file(w, file_id, refused) ==
    /\ Free(w)
    /\ refused => \E v \in VersionsOf(file_id) : v.saved_path \in disk
    /\ IF Exists(file_id)
          /\ \E v \in VersionsOf(file_id) : Unlink(v, refused) = "raised"
       THEN /\ resp' = [kind |-> "error", op |-> "delete", why |-> "unlink",
                        id |-> file_id, missing |-> TRUE, failed |-> FALSE]
            /\ UNCHANGED <<req, disk, serial>>
       ELSE IF Exists(file_id)
       THEN /\ req' = [req EXCEPT ![w] =
                          [op |-> "delete", file_id |-> file_id,
                           ident |-> Ident(FileRow(file_id)),
                           versions |-> VersionsOf(file_id),
                           links |-> LinksOf(file_id),
                           missing |-> \E v \in VersionsOf(file_id) :
                                          v.saved_path \notin disk,
                           failed |-> \E v \in VersionsOf(file_id) :
                                         Unlink(v, refused) = "failed"]]
            /\ disk' = disk \ {v.saved_path : v \in {u \in VersionsOf(file_id) :
                                              Unlink(u, refused) = "removed"}}
            /\ serial' = [serial EXCEPT ![Ident(FileRow(file_id))] = FALSE]
            /\ resp' = NoResp
       ELSE /\ resp' = [kind |-> "404"]
            /\ UNCHANGED <<req, disk, serial>>
    /\ UNCHANGED <<files, file_versions, card_files, seqs, stores>>
    /\ UNCHANGED <<regVars, restVars>>

\* a delete that forgets the links of the file
DeletedKeepingLinks(r) ==
    [files |-> {f \in files : f.id # r.file_id},
     file_versions |-> file_versions \ r.versions,
     card_files |-> card_files]

\* a delete that commits the removal of the files row alone
DeletedFileRowOnly(r) ==
    [files |-> {f \in files : f.id # r.file_id},
     file_versions |-> file_versions,
     card_files |-> card_files]

\* the tables as the session of delete request r leaves them: db.delete of
\* every version row read, of every link read, then of the files row
Deleted(r) ==
    [files |-> {f \in files : f.id # r.file_id},
     file_versions |-> file_versions \ r.versions,
     card_files |-> card_files \ r.links]

\* db.commit() of delete_file: the deletes become visible together; the
\* commit fails when a row committed since the reads still refers to the
\* files row
DeleteCommit(w) ==
    /\ req[w].op = "delete"
    /\ LET r == req[w]
           refs == (VersionsOf(r.file_id) \ r.versions)
                       \cup (LinksOf(r.file_id) \ r.links)
       IN  IF \A x \in refs : ForeignKey(x.file_id, Deleted(r).files)
           THEN /\ file_versions' = Deleted(r).file_versions
                /\ card_files' = Deleted(r).card_files
                /\ files' = Deleted(r).files
                /\ resp' = [kind |-> "deleted", id |-> r.file_id,
                            linked |-> r.links # {},
                            missing |-> r.missing, failed |-> r.failed]
           ELSE /\ resp' = [kind |-> "error", op |-> "delete", why |-> "commit",
                            id |-> r.file_id, missing |-> r.missing,
                            failed |-> r.failed]
                /\ UNCHANGED <<files, file_versions, card_files>>
    /\ req' = [req EXCEPT ![w] = Idle]
    /\ UNCHANGED <<disk, seqs, stores, serial>>
    /\ UNCHANGED <<regVars, restVars>>

\* -------------------------------------------------------------- the board
NoCall == [op |-> "none"]
\* card_data.model_dump(exclude_unset=True): the fields a PATCH request sets
CardUpdates ==
    {[column_id |-> col] : col \in 0..MaxColumns}
        \cup {[title |-> "b"]}
        \cup {[column_id |-> col, title |-> "b"] : col \in 0..MaxColumns}
\* what the board handlers leave alone of the file tables
fileRest == <<files, file_versions, disk, seqs, req, resp, stores, serial>>
outsideBoard == <<fileRest, regVars, authVars, schedVars>>

\* db.get(Model, id): whether rows has the row of that primary key
Found(rows, id) == \E r \in rows : r.id = id
CardRow(id) == CHOOSE c \in cards : c.id = id
\* column.cards: the cards whose column_id is the column's id
CardsIn(column_id) == {c \in cards : c.column_id = column_id}
\* a delete of the column that takes its cards with it
Cascaded(rows) == cards \ rows

\* card.column_id = None for every card of rows
Evacuated(rows) ==
    (cards \ rows) \cup {[c EXCEPT !.column_id = 0] : c \in rows}

\* POST /projects/{project_id}/columns
create_column(project_id) ==
    /\ bseqs.column <= MaxColumns
    /\ board_columns' = board_columns \cup
           {[id |-> bseqs.column, project_id |-> project_id]}
    /\ bseqs' = [bseqs EXCEPT !.column = @ + 1]
    /\ UNCHANGED <<cards, card_dependencies, breq, card_files, outsideBoard>>

\* POST /projects/{project_id}/cards: column_id 0 or None puts the card in
\* the backlog; another column_id must be a column of the project, or the
\* request ends in 404 or 400 and inserts nothing
create_card(project_id, column_id) ==
    /\ bseqs.card <= MaxCards
    /\ column_id # 0 =>
          \E col \in board_columns :
              col.id = column_id /\ col.project_id = project_id
    /\ cards' = cards \cup {[id |-> bseqs.card, project_id |-> project_id,
                             column_id |-> column_id, title |-> "a"]}
    /\ bseqs' = [bseqs EXCEPT !.card = @ + 1]
    /\ UNCHANGED <<board_columns, card_dependencies, breq, card_files,
                   outsideBoard>>

\* PATCH /cards/{card_id}: every field the request sets is assigned to the
\* card as it is; the commit is refused when column_id names no column
\* (foreign key cards.column_id)
update_card(card_id, card_data) ==
    /\ Found(cards, card_id)
    /\ LET card == CardRow(card_id)
           new == [key \in DOMAIN card |->
                      IF key \in DOMAIN card_data THEN card_data[key]
                      ELSE card[key]]
       IN  /\ new # card
           /\ new.column_id = 0 \/ ForeignKey(new.column_id, board_columns)
           /\ cards' = (cards \ {card}) \cup {new}
    /\ UNCHANGED <<board_columns, card_dependencies, bseqs, breq, card_files,
                   outsideBoard>>

\* DELETE /columns/{column_id}, up to its first commit: the cards of the
\* column are moved to the backlog
delete_column(column_id) ==
    /\ breq = NoCall
    /\ Found(board_columns, column_id)
    /\ cards' = Evacuated(CardsIn(column_id))
    /\ breq' = [op |-> "delete_column", column_id |-> column_id,
                evacuated |-> {c.id : c \in CardsIn(column_id)}]
    /\ UNCHANGED <<board_columns, card_dependencies, bseqs, card_files,
                   outsideBoard>>

\* db.refresh(column), db.delete(column) and the second commit: the column
\* row is deleted; a card that came into the column since the first commit is
\* in the refreshed column.cards and is taken out of the column with it
DeleteColumnCommit ==
    /\ breq.op = "delete_column"
    /\ cards' = Evacuated(CardsIn(breq.column_id))
    /\ board_columns' = {col \in board_columns : col.id # breq.column_id}
    /\ breq' = NoCall
    /\ UNCHANGED <<card_dependencies, bseqs, card_files, outsideBoard>>

\* POST /cards/{card_id}/files/{file_id}: the link is inserted when the card
\* and the file are there and the link is not; the insert of a link to a row
\* deleted since the lookup is refused by the foreign keys of card_files
attach_file_to_card(card_id, file_id) ==
    /\ Found(cards, card_id) /\ Exists(file_id)
    /\ ForeignKey(card_id, cards) /\ ForeignKey(file_id, files)
    /\ [card_id |-> card_id, file_id |-> file_id] \notin card_files
    /\ card_files' = card_files \cup {[card_id |-> card_id, file_id |-> file_id]}
    /\ resp' = NoResp
    /\ UNCHANGED <<files, file_versions, disk, seqs, req, stores, serial>>
    /\ UNCHANGED <<regVars, restVars>>

\* DELETE /cards/{card_id}/files/{file_id}
detach_file_from_card(card_id, file_id) ==
    /\ [card_id |-> card_id, file_id |-> file_id] \in card_files
    /\ card_files' = card_files \ {[card_id |-> card_id, file_id |-> file_id]}
    /\ UNCHANGED <<boardVars, outsideBoard>>

\* db.delete(card): the card row goes, and with it the card_files rows of the
\* card, which the relationship Card.files has through its link model
CardDeleted(card_id) ==
    [cards |-> {c \in cards : c.id # card_id},
     card_files |-> {l \in card_files : l.card_id # card_id}]

\* DELETE /cards/{card_id}: the commit is refused while a row of card_files
\* or card_dependencies still refers to the card (foreign keys on cards.id)
delete_card(card_id) ==
    /\ Found(cards, card_id)
    /\ LET after == CardDeleted(card_id)
       IN  /\ \A l \in after.card_files : ForeignKey(l.card_id, after.cards)
           /\ \A d \in card_dependencies :
                 /\ ForeignKey(d.from_card_id, after.cards)
                 /\ ForeignKey(d.to_card_id, after.cards)
           /\ cards' = after.cards
           /\ card_files' = after.card_files
    /\ UNCHANGED <<board_columns, card_dependencies, bseqs, breq, outsideBoard>>

\* POST /cards/connections: both cards must be there and of one project
create_card_connection(from_card_id, to_card_id) ==
    /\ bseqs.dependency <= MaxConnections
    /\ Found(cards, from_card_id) /\ Found(cards, to_card_id)
    /\ CardRow(from_card_id).project_id = CardRow(to_card_id).project_id
    /\ ForeignKey(from_card_id, cards) /\ ForeignKey(to_card_id, cards)
    /\ card_dependencies' = card_dependencies \cup
           {[id |-> bseqs.dependency, from_card_id |-> from_card_id,
             to_card_id |-> to_card_id]}
    /\ bseqs' = [bseqs EXCEPT !.dependency = @ + 1]
    /\ UNCHANGED <<board_columns, cards, breq, card_files, outsideBoard>>

\* DELETE /cards/connections/{connection_id}
delete_card_connection(connection_id) ==
    /\ Found(card_dependencies, connection_id)
    /\ card_dependencies' = {d \in card_dependencies : d.id # connection_id}
    /\ UNCHANGED <<board_columns, cards, bseqs, breq, card_files, outsideBoard>>

BoardInit ==
    /\ board_columns = {}
    /\ cards = {}
    /\ card_dependencies = {}
    /\ bseqs = [column |-> 1, card |-> 1, dependency |-> 1]
    /\ breq = NoCall

\* a board with one column and in it the card files are attached to
BoardWithCard ==
    /\ board_columns = {[id |-> 1, project_id |-> 7]}
    /\ cards = {[id |-> c, project_id |-> 7, column_id |-> 1, title |-> "a"] :
                   c \in Cards}
    /\ card_dependencies = {}
    /\ bseqs = [column |-> 2, card |-> 6, dependency |-> 1]
    /\ breq = NoCall

FileInit ==
    /\ files = {}
    /\ file_versions = {}
    /\ card_files = {}
    /\ disk = {}
    /\ seqs = [file |-> 1, version |-> 1, uuid |-> 1]
    /\ req = [w \in Workers |-> Idle]
    /\ resp = NoResp
    /\ stores = [x \in Idents |-> 0]
    /\ serial = [x \in Idents |-> TRUE]

\* uploads, batches and deletes; os.remove removes what it is asked to
FileNext ==
    \/ \E w \in Workers, p \in Projects, n \in Filenames, u \in Users :
           upload_file(w, p, n, u)
    \/ \E w \in Workers, p \in Projects, ns \in Batches, u \in Users :
           upload_files_batch(w, p, ns, u)
    \/ \E w \in Workers : BatchNext(w)
    \/ \E w \in Workers : StoreLookup(w)
    \/ \E w \in Workers : StoreCommit(w)
    \/ \E w \in Workers, id \in 1..MaxUploads : delete_file(w, id, FALSE)
    \/ \E w \in Workers : DeleteCommit(w)

\* single uploads and deletes with files being attached to cards
CardNext ==
    \/ \E w \in Workers, p \in Projects, n \in Filenames, u \in Users :
           upload_file(w, p, n, u)
    \/ \E w \in Workers : StoreLookup(w)
    \/ \E w \in Workers : StoreCommit(w)
    \/ \E w \in Workers, id \in 1..MaxUploads : delete_file(w, id, FALSE)
    \/ \E w \in Workers : DeleteCommit(w)
    \/ \E c \in Cards, id \in 1..MaxUploads : attach_file_to_card(c, id)

\* uploads and deletes on a storage that may refuse os.remove
StorageNext ==
    \/ \E w \in Workers, p \in Projects, n \in Filenames, u \in Users :
           upload_file(w, p, n, u)
    \/ \E w \in Workers : StoreLookup(w)
    \/ \E w \in Workers : StoreCommit(w)
    \/ \E w \in Workers, id \in 1..MaxUploads, refused \in BOOLEAN :
           delete_file(w, id, refused)
    \/ \E w \in Workers : DeleteCommit(w)

\* the cards of the board with their connections and attached files; one
\* file request at a time, all for spec.pdf
BoardNext ==
    \/ \E p \in Projects : upload_file(1, p, "spec.pdf", 1)
    \/ StoreLookup(1)
    \/ StoreCommit(1)
    \/ \E id \in 1..MaxUploads : delete_file(1, id, FALSE)
    \/ DeleteCommit(1)
    \/ \E p \in BoardProjects : create_card(p, 0)
    \/ \E c \in 1..MaxCards, id \in 1..MaxUploads : attach_file_to_card(c, id)
    \/ \E c \in 1..MaxCards, id \in 1..MaxUploads : detach_file_from_card(c, id)
    \/ \E c \in 1..MaxCards : delete_card(c)
    \/ \E a, b \in 1..MaxCards : create_card_connection(a, b)
    \/ \E id \in 1..MaxConnections : delete_card_connection(id)

\* the columns of the board and the cards in them
ColumnNext ==
    \/ \E p \in BoardProjects : create_column(p)
    \/ \E p \in BoardProjects, col \in 0..MaxColumns : create_card(p, col)
    \/ \E c \in 1..MaxCards, card_data \in CardUpdates : update_card(c, card_data)
    \/ \E col \in 1..MaxColumns : delete_column(col)
    \/ DeleteColumnCommit

\* ------------------------------------------------------------- accounts
NoSignup == [op |-> "none"]
outsideAuth == <<regVars, fileVars, boardVars, schedVars>>
UserOf(email) == {u \in users : u.email = email}
\* user_data.email.endswith("@jj.ac.kr")
IsCampusAddress(email) == email[2] = "jj.ac.kr"
\* bcrypt: the hash of a password, and the check of a password against a hash
hash_password(password) == <<"hash", password>>
verify_password(plain_password, hashed_password) ==
    hashed_password = hash_password(plain_password)
\* the request just served, for the history
Served(op, email, code, ok) ==
    [op |-> op, email |-> email, code |-> code, ok |-> ok]

\* POST /signup, up to its first commit: refused for an address that has a
\* user or is not of the campus domain, else the user row is inserted with
\* is_student_verified = False
signup(email, password) ==
    /\ asig = NoSignup
    /\ IF UserOf(email) # {} \/ ~IsCampusAddress(email)
       THEN /\ alast' = Served("signup", email, "", FALSE)
            /\ UNCHANGED <<users, asig>>
       ELSE /\ users' = users \cup {[email |-> email,
                                     password_hash |-> hash_password(password),
                                     is_student_verified |-> FALSE]}
            /\ asig' = [op |-> "signup", email |-> email]
            /\ alast' = Served("signup", email, "", TRUE)
    /\ UNCHANGED <<verifications, sessions, used, outsideAuth>>

\* generate_code(), db.merge(verification) and the second commit of signup:
\* the code replaces the one stored for the address, if any
SignupCode ==
    /\ asig.op = "signup"
    /\ \E code \in Codes :
           verifications' = {v \in verifications : v.email # asig.email}
                                \cup {[email |-> asig.email, code |-> code]}
    /\ asig' = NoSignup
    /\ UNCHANGED <<users, sessions, alast, used, outsideAuth>>

\* a verify that leaves the code it used in the table
Kept(rows) == verifications

\* db.delete(verification): the table without the rows used
Consumed(rows) == verifications \ rows

\* POST /verify: 400 unless the code is the one stored for the address, 404
\* without a user of the address; else the user is verified and the code row
\* is deleted
verify_email(email, code) ==
    LET verification == {v \in verifications : v.email = email}
    IN  /\ IF verification = {} \/ (\E v \in verification : v.code # code)
              \/ UserOf(email) = {}
           THEN /\ alast' = Served("verify", email, code, FALSE)
                /\ UNCHANGED <<users, verifications, used>>
           ELSE /\ users' = (users \ UserOf(email)) \cup
                        {[u EXCEPT !.is_student_verified = TRUE] :
                            u \in UserOf(email)}
                /\ verifications' = Consumed(verification)
                /\ used' = [used EXCEPT ![<<email, code>>] =
                                IF @ < 2 THEN @ + 1 ELSE @]
                /\ alast' = Served("verify", email, code, TRUE)
        /\ UNCHANGED <<sessions, asig, outsideAuth>>

\* POST /login: 401 for an unknown address or a wrong password, 403 for a
\* user not verified; else a session row is inserted
login(email, password) ==
    LET free == {i \in 1..MaxSessions : \A x \in sessions : x.session_id # i}
    IN  /\ free # {}
        /\ IF \E u \in UserOf(email) :
                  /\ verify_password(password, u.password_hash)
                  /\ u.is_student_verified
           THEN /\ sessions' = sessions \cup
                        {[session_id |-> CHOOSE i \in free : \A j \in free : i <= j,
                          email |-> email]}
                /\ alast' = Served("login", email, "", TRUE)
           ELSE /\ alast' = Served("login", email, "", FALSE)
                /\ UNCHANGED sessions
        /\ UNCHANGED <<users, verifications, asig, used, outsideAuth>>

\* POST /logout: the session row of the cookie is deleted when there is one
logout(session_id) ==
    /\ \E x \in sessions : x.session_id = session_id
    /\ sessions' = {x \in sessions : x.session_id # session_id}
    /\ alast' = Served("logout", <<"", "">>, "", TRUE)
    /\ UNCHANGED <<users, verifications, asig, used, outsideAuth>>

AuthInit ==
    /\ users = {}
    /\ verifications = {}
    /\ sessions = {}
    /\ asig = NoSignup
    /\ alast = Served("none", <<"", "">>, "", FALSE)
    /\ used = [x \in Emails \X Codes |-> 0]

AuthNext ==
    \/ \E e \in Emails : signup(e, "pw")
    \/ SignupCode
    \/ \E e \in Emails, code \in Codes : verify_email(e, code)
    \/ \E e \in Emails, password \in Passwords : login(e, password)
    \/ \E i \in 1..MaxSessions : logout(i)

\* ------------------------------------------------------------ schedules
\* time(9, 0), time(22, 0) and timedelta(minutes=30), in minutes
DayStart == 540
DayEnd == 1320
MinSlot == 30
\* range(5): Monday to Friday
NumWeekdays == 5
\* the times of day and the days a schedule entry may be given
Times == {DayStart - 60, DayStart, DayStart + 20, DayStart + 60,
          DayEnd - 20, DayEnd, DayEnd + 40, DayEnd + 70}
EntryDays == {0, 1}
\* the members of the workspace, and a user who is none
WorkspaceMembers == {1}
ScheduleUsers == {1, 3}
outsideSched == <<regVars, fileVars, boardVars, authVars>>

\* POST /schedules: the entry is stored as given
add_schedule(user_id, day_of_week, start_time, end_time) ==
    /\ Cardinality(schedules) < MaxSchedules
    /\ schedules' = schedules \cup
           {[id |-> Cardinality(schedules) + 1, user_id |-> user_id,
             day_of_week |-> day_of_week, start_time |-> start_time,
             end_time |-> end_time]}
    /\ sresp' = [kind |-> "schedule"]
    /\ UNCHANGED outsideSched

\* the orders in which a select may return rows
Orders(rows) ==
    {o \in [1..Cardinality(rows) -> rows] : Range(o) = rows}

\* sorted(..., key=lambda x: x.start_time): a stable sort, x goes behind the
\* entries that start no later
RECURSIVE Sorted(_)
Sorted(seq) ==
    IF seq = <<>> THEN <<>>
    ELSE LET x == seq[Len(seq)]
             front == Sorted(SubSeq(seq, 1, Len(seq) - 1))
             k == Cardinality({i \in 1..Len(front) :
                                 front[i].start_time <= x.start_time})
         IN  SubSeq(front, 1, k) \o <<x>> \o SubSeq(front, k + 1, Len(front))

\* the loop over day_schedules from current_time on, then the slot up to
\* end_limit
RECURSIVE DaySlots(_, _, _)
DaySlots(day, day_schedules, current_time) ==
    IF day_schedules = <<>>
    THEN IF DayEnd > current_time + MinSlot
         THEN <<[day_of_week |-> day, start_time |-> current_time,
                 end_time |-> DayEnd]>>
         ELSE <<>>
    ELSE LET s == Head(day_schedules)
         IN  (IF s.start_time > current_time + MinSlot
              THEN <<[day_of_week |-> day, start_time |-> current_time,
                      end_time |-> s.start_time]>>
              ELSE <<>>)
             \o DaySlots(day, Tail(day_schedules),
                         IF s.end_time > current_time THEN s.end_time
                         ELSE current_time)

\* free_slots of the days from day on, all_schedules being the rows selected
RECURSIVE FreeSlots(_, _)
FreeSlots(day, all_schedules) ==
    IF day >= NumWeekdays THEN <<>>
    ELSE DaySlots(day,
                  Sorted(SelectSeq(all_schedules,
                                   LAMBDA s : s.day_of_week = day)),
                  DayStart)
         \o FreeSlots(day + 1, all_schedules)

\* GET /workspaces/{workspace_id}/free-time
get_common_free_time ==
    /\ WorkspaceMembers # {}
    /\ \E all_schedules \in
              Orders({s \in schedules : s.user_id \in WorkspaceMembers}) :
           sresp' = [kind |-> "slots", slots |-> FreeSlots(0, all_schedules)]
    /\ UNCHANGED <<schedules, outsideSched>>

SchedInit ==
    /\ schedules = {}
    /\ sresp = [kind |-> "none"]

SchedNext ==
    \/ \E u \in ScheduleUsers, d \in EntryDays, a, b \in Times :
           add_schedule(u, d, a, b)
    \/ get_common_free_time

\* ----------------------------------------------------------- specifications
\* the registry with its handlers, no broadcast recorded
InitReg == RegInit /\ observing = FALSE /\ FileInit /\ BoardInit /\ AuthInit /\ SchedInit
SpecReg == InitReg /\ [][RegNext]_vars

\* the same, with one broadcast at a time recorded in obs
InitObs == RegInit /\ observing = TRUE /\ FileInit /\ BoardInit /\ AuthInit /\ SchedInit
SpecObs == InitObs /\ [][RegNext]_vars

\* what the event loop does for the handler of c without the client doing
\* anything: a pending send_json ends, receive_json raises on a closed transport
Resume(c) ==
    \/ VoiceStep(c) \/ LeftStep(c) \/ ChatBroadcast(c) \/ ChatStep(c)
    \/ ReceiveDisconnect(c)

\* the recorded registry, every handler being resumed when it can be
SpecLive == InitObs /\ [][RegNext]_vars /\ \A c \in Conns : WF_vars(Resume(c))

\* the file version manager
InitFile ==
    RegInit /\ endpoint = "voice" /\ observing = FALSE /\ FileInit /\ BoardInit /\ AuthInit /\ SchedInit
SpecFile == InitFile /\ [][FileNext]_vars

\* the file version manager with the card attachments of the board
InitCard ==
    RegInit /\ endpoint = "voice" /\ observing = FALSE /\ FileInit
        /\ BoardWithCard /\ AuthInit /\ SchedInit
SpecCard == InitCard /\ [][CardNext]_vars

\* the board: cards, connections and attached files
SpecBoard == InitFile /\ [][BoardNext]_vars

\* the board: columns and cards
SpecColumn == InitFile /\ [][ColumnNext]_vars

\* the account requests
SpecAuth == InitFile /\ [][AuthNext]_vars

\* the schedule requests
SpecSched == InitFile /\ [][SchedNext]_vars

\* uploads and deletes with a storage that may refuse to remove a file
SpecStorage == InitFile /\ [][StorageNext]_vars

\* ------------------------------------------------------------------ claims
Completed == obs.st \in {"ok", "raised"}
Recipients == obs.start \ {obs.sender}

\* C1: after any sequence of connect and disconnect calls, the list recorded
\* for each room holds exactly the websockets that were connected to the room
\* and not disconnected since, each once.
C1_MembersAreJoinedNotLeft ==
    \A r \in Rooms :
        LET l == Members(active_connections, r)
            s == {c \in Conns : <<c, r>> \in joined}
        IN  Range(l) = s /\ Len(l) = Cardinality(s)

\* a websocket joined room 41 and left it again while two others stay
C1_Witness ==
    \E c \in Conns :
        /\ pc[c] = "ended" /\ ~InRegistry(active_connections, c)
        /\ Len(Members(active_connections, 41)) = 2
        /\ c \notin Range(Members(active_connections, 41))

\* C2: a broadcast during which the room's list did not change delivers the
\* message once to every member other than the sender (other than one whose
\* own send failed), and never to the sender.
C2_BroadcastReachesEveryMember ==
    (Completed /\ ~obs.changed) =>
        /\ obs.got \cup obs.failed = Recipients
        /\ ~obs.twice

\* C3: when the send to one recipient fails, the failure does not leave the
\* broadcast call and every other non-sender member still gets the message.
C3_FailureDoesNotStopBroadcast ==
    (obs.failed # {}) =>
        /\ obs.st # "raised"
        /\ (obs.st = "ok" /\ ~obs.changed) => obs.got = Recipients \ obs.failed

\* C4: under any interleaving with joins and leaves of other websockets, a
\* broadcast that returns has sent the message exactly once to every
\* non-sender websocket that was a member at the call (and still is).
C4_MembersAtCallSentOnce ==
    (obs.st = "ok") =>
        /\ \A t \in Recipients :
              t \in Range(Members(active_connections, obs.room)) => t \in obs.got
        /\ ~obs.twice

\* C5: whenever a chat or voice handler has ended, by disconnect or by any
\* other error, its websocket is no longer in the registry.
C5_EndedHandlerLeftRegistry ==
    \A c \in Conns : pc[c] = "ended" => ~InRegistry(active_connections, c)

\* C6: a websocket is sent only messages whose broadcast was called while it
\* was a member of the room; what was broadcast while it was absent never
\* reaches it.
C6_OnlyMembersAtCallReceive ==
    obs.got \subseteq obs.start

\* the identities stored to one call after the other and never deleted
Serial == {x \in Idents : serial[x]}
RowsOf(x) == {f \in files : Ident(f) = x}
FileIds == 1..(MaxUploads + 1)

\* C7: k stores of one filename to one project, one after the other with no
\* delete, leave one FileMetadata row and k FileVersion rows numbered 1..k in
\* the order of the stores, and each response reports the number assigned.
C7_SerialStoresNumberOneToK ==
    /\ \A x \in Serial :
          /\ Cardinality(RowsOf(x)) <= 1
          /\ stores[x] >= 1 => Cardinality(RowsOf(x)) = 1
          /\ \A f \in RowsOf(x) :
                /\ {v.version : v \in VersionsOf(f.id)} = 1..stores[x]
                /\ Cardinality(VersionsOf(f.id)) = stores[x]
                /\ \A u, v \in VersionsOf(f.id) :
                      u.id < v.id <=> u.version < v.version
    /\ (resp.kind = "file" /\ Exists(resp.id)
           /\ Ident(FileRow(resp.id)) \in Serial) =>
          /\ resp.version = stores[Ident(FileRow(resp.id))]
          /\ \E v \in VersionsOf(resp.id) :
                v.id = resp.version_id /\ v.version = resp.version

\* the third store in a row of one filename has just answered
C7_Witness ==
    \E x \in Serial :
        /\ stores[x] = 3 /\ resp.kind = "file" /\ resp.version = 3
        /\ Exists(resp.id) /\ Ident(FileRow(resp.id)) = x

\* C8: for every live file the highest version number among its rows equals
\* the number of successful stores ever made for its (project, filename).
C8_HighestVersionCountsStores ==
    \A f \in files :
        VersionsOf(f.id) # {} =>
            OrderByDesc(VersionsOf(f.id))[1].version = stores[Ident(f)]

\* C9: get_file_history returns all version rows of a live file, most recent
\* first, in strictly decreasing version order.
C9_HistoryStrictlyDecreasing ==
    \A id \in FileIds :
        LET h == get_file_history(id)
        IN  h.kind = "history" =>
                /\ Range(h.versions) = VersionsOf(id)
                /\ \A k \in 1..(Len(h.versions) - 1) :
                      h.versions[k].version > h.versions[k + 1].version

\* C10: under any interleaving of stores of one filename, no two FileVersion
\* rows of one file carry the same version number.
C10_VersionNumbersDistinct ==
    \A u, v \in file_versions :
        (u # v /\ u.file_id = v.file_id) => u.version # v.version

\* the file ids handed out so far whose files row is gone: the deleted files
Gone == {id \in 1..(seqs.file - 1) : ~Exists(id)}

\* C11: after delete_file succeeded for a file, no FileVersion row and no
\* CardFileLink row of that file exists, its FileMetadata row is gone and
\* get_file_history answers not found, from then on.
C11_DeletedFileLeavesNothing ==
    /\ resp.kind = "deleted" => resp.id \in Gone
    /\ \A id \in Gone :
          /\ VersionsOf(id) = {} /\ LinksOf(id) = {}
          /\ get_file_history(id).kind = "404"

\* a file attached to a card has just been deleted
C11_Witness ==
    resp.kind = "deleted" /\ resp.linked /\ ~Exists(resp.id)

\* C12: after any interleaving of uploads, batch uploads and deletes, every
\* FileVersion row refers to a FileMetadata row that exists.
C12_VersionRowsHaveTheirFile ==
    \A v \in file_versions : Exists(v.file_id)

\* a store whose file was deleted under it has been refused while other
\* version rows are there
C12_Witness ==
    /\ resp.kind = "error" /\ resp.op \in {"upload", "batch"}
    /\ Gone # {} /\ file_versions # {}

\* C13: every JSON payload a voice handler receives is sent on unchanged to
\* all other members of the room and is not sent back to its sender.
C13_VoicePayloadRelayed ==
    (endpoint = "voice" /\ obs.msg \in Payloads /\ Completed) =>
        /\ \A t \in Recipients :
              t \in Range(Members(active_connections, obs.room)) =>
                  t \in obs.got \cup obs.failed
        /\ obs.sent \subseteq {obs.msg}
        /\ obs.sender \notin obs.got

\* C14: when the store of a later file of a batch fails, the FileMetadata and
\* FileVersion rows committed for the earlier files of the batch stay as they
\* are: the failing step changes no row.
C14_FailedBatchKeepsEarlierFiles ==
    [][\A w \in Workers :
          (req[w].op = "batch" /\ req'[w] = Idle /\ resp'.kind = "error") =>
              /\ files' = files /\ file_versions' = file_versions
              /\ req[w].done \cap file_versions \subseteq file_versions']_vars

\* a batch has failed at its second file with the row of its first committed
C14_Witness ==
    /\ resp.kind = "error" /\ resp.op = "batch" /\ resp.kept
    /\ file_versions # {}

\* C15: when writing the uploaded bytes fails, the request ends with no
\* FileMetadata or FileVersion row created or changed.
C15_FailedWriteChangesNoRow ==
    [][(resp'.kind = "error" /\ resp'.why = "write") =>
          UNCHANGED <<files, file_versions, card_files>>]_vars

\* the write of an upload failed while the tables hold rows
C15_Witness ==
    /\ resp.kind = "error" /\ resp.why = "write" /\ resp.op = "upload"
    /\ files # {} /\ file_versions # {}

\* C16: no room identifier maps to an empty list: the registry has an entry
\* for a room exactly when the room has a member.
C16_NoEmptyRoom ==
    \A r \in Rooms :
        /\ r \in DOMAIN active_connections <=>
               \E c \in Conns : <<c, r>> \in joined
        /\ r \in DOMAIN active_connections => active_connections[r] # <<>>

\* the last member has left and the registry has no entry any more
C16_Witness ==
    /\ DOMAIN active_connections = {}
    /\ \E c \in Conns : pc[c] = "ended"

\* C17: no join or leave changes a room's list while a broadcast on that room
\* is between its first and its last send.
C17_NoChangeDuringBroadcast ==
    obs.st = "run" => ~obs.changed

\* C18: a websocket to which a send of a broadcast failed is eventually
\* removed from its room's list, and so is no target of later broadcasts.
C18_FailedRecipientLeaves ==
    \A c \in Conns :
        (c \in obs.failed) ~> ~InRegistry(active_connections, c)

\* C19: delete_file removes the version rows and the link rows of a file
\* before its FileMetadata row: in no state is a FileMetadata row gone while
\* a version or a link of it remains.
C19_NoRowOutlivesItsFile ==
    /\ \A v \in file_versions : Exists(v.file_id)
    /\ \A l \in card_files : Exists(l.file_id)

\* a file attached to a card has been deleted while another file and its
\* versions are still there
C19_Witness ==
    /\ resp.kind = "deleted" /\ resp.linked
    /\ files # {} /\ file_versions # {}

\* C20: delete_file succeeds and removes every row of the file also when the
\* stored file of one or more of its versions is no longer on disk: a delete
\* is refused at its commit only, never for a missing file.
C20_DeleteToleratesMissingArtifact ==
    /\ (resp.kind = "deleted" /\ resp.missing) =>
          /\ ~Exists(resp.id)
          /\ VersionsOf(resp.id) = {} /\ LinksOf(resp.id) = {}
    /\ (resp.kind = "error" /\ resp.op = "delete") => resp.why = "commit"

\* a file one of whose versions had lost its stored file has been deleted
C20_Witness ==
    resp.kind = "deleted" /\ resp.missing /\ resp.id \in Gone

\* C21: when os.remove fails on a stored file that is there, delete_file is
\* aborted: the FileMetadata row and its FileVersion rows are not removed.
C21_FailedUnlinkAbortsDelete ==
    [][\A w \in Workers :
          (req[w].op = "delete" /\ req[w].failed /\ req'[w] = Idle) =>
              UNCHANGED <<files, file_versions>>]_vars

\* C22: a store that fails leaves none of the bytes it wrote: neither the
\* file of a write that raised nor the file of a store whose commit was
\* refused is on disk when the request has ended.
C22_FailedStoreLeavesNoArtifact ==
    [][/\ (resp'.kind = "error" /\ resp'.why = "write"
              /\ seqs'.uuid = seqs.uuid + 1) => seqs.uuid \notin disk'
       /\ \A w \in Workers :
             (req[w].op \in {"upload", "batch"} /\ req[w].pc = "ins"
                /\ req'[w] = Idle /\ resp'.kind = "error") =>
                 req[w].saved_path \notin disk']_vars

\* C23: no two FileMetadata rows have the same (project_id, filename), under
\* any interleaving of uploads, and a row that is still there after a step has
\* the project_id, filename and owner_id it had before.
C23_OneRowPerName ==
    [][/\ \A f, g \in files' : Ident(f) = Ident(g) => f = g
       /\ \A f \in files : (\E g \in files' : g.id = f.id) => f \in files']_vars

\* C24: in every reachable state of the board, under every interleaving of
\* attach, detach, delete_file, delete_card and the two connection handlers,
\* each card_files row names a card and a file that exist and each
\* card_dependencies row names two cards that exist.
C24_LinksHaveBothEnds ==
    /\ \A l \in card_files :
          (\E c \in cards : c.id = l.card_id) /\ Exists(l.file_id)
    /\ \A d \in card_dependencies :
          /\ \E c \in cards : c.id = d.from_card_id
          /\ \E c \in cards : c.id = d.to_card_id

\* a card has been deleted, and so has a file; a link and a connection are
\* still there
C24_Witness ==
    /\ Cardinality(cards) < bseqs.card - 1
    /\ Gone # {}
    /\ card_files # {} /\ card_dependencies # {}

\* C25: after any sequence of create_card, update_card and delete_column,
\* every card whose column_id is set names a column that exists and is of the
\* card's project.
C25_CardColumnOfSameProject ==
    \A c \in cards :
        c.column_id # 0 =>
            \E col \in board_columns :
                col.id = c.column_id /\ col.project_id = c.project_id

\* C26: a chat message that was stored and echoed to its sender goes out in
\* one copy to each other member of the room: when the broadcast of the
\* stored message has ended, every member it was called with that is still
\* in the room, the sender apart, was sent the message (or the send to it
\* failed), none more than once, and the sender got no second copy from the
\* broadcast.
C26_OneCopyPerMember ==
    (endpoint = "chat" /\ obs.msg \in Payloads /\ Completed) =>
        /\ \A t \in Recipients :
              t \in Range(Members(active_connections, obs.room)) =>
                  t \in obs.got \cup obs.failed
        /\ ~obs.twice
        /\ obs.sender \notin obs.got

\* the cards after a commit of delete_column on column col, by C27: those of
\* the column are in the backlog and otherwise as they were, the others are
\* as they were
BacklogOnly(col) ==
    /\ {c.id : c \in cards'} = {c.id : c \in cards}
    /\ \A c \in cards :
          IF c.column_id = col
          THEN [c EXCEPT !.column_id = 0] \in cards'
          ELSE c \in cards'

C28_RoomsIsolated ==
    [][/\ \A t \in obs'.got \cup obs'.failed :
             \/ t \in obs'.start
             \/ \A r \in Rooms \ {obs'.room} :
                    t \notin Range(Members(active_connections', r))
       /\ \A r \in Rooms :
             Members(active_connections', r) # Members(active_connections, r) =>
                 \E c \in Conns :
                     /\ pc'[c] # pc[c]
                     /\ r = IF pc[c] = "init" THEN room'[c] ELSE room[c]]_vars

\* a broadcast on one room has ended with a member sent to, while the other
\* room has a member too
C28_Witness ==
    /\ obs.st = "ok" /\ obs.got # {}
    /\ \E r \in Rooms \ {obs.room} : Members(active_connections, r) # <<>>

\* C29: a session exists only for a verified user; a user becomes verified
\* only by a verify request that gives the code stored for the address; and
\* no issued code is accepted by a verify twice.
C29_VerifiedByStoredCodeOnce ==
    [][ /\ \A x \in sessions' :
              \E u \in users' : u.email = x.email /\ u.is_student_verified
        /\ \A u \in users' :
              (u.is_student_verified /\ u \notin users)
                 => /\ alast'.op = "verify"
                    /\ alast'.email = u.email
                    /\ [email |-> u.email, code |-> alast'.code]
                           \in verifications
        /\ \A x \in DOMAIN used' : used'[x] <= 1 ]_vars

\* a verified user has a session, and a verify that gave the code this user
\* was verified with has just been refused
C29_Witness ==
    /\ alast.op = "verify" /\ ~alast.ok
    /\ used[<<alast.email, alast.code>>] = 1
    /\ \E x \in sessions : x.email = alast.email
    /\ \E u \in users : ~u.is_student_verified

\* C30: every slot of the free-time response lies within 09:00-22:00 on a
\* weekday, is longer than 30 minutes, and overlaps no schedule entry of a
\* member on that day.
C30_SlotsFreeWithinDay ==
    sresp.kind = "slots" =>
        \A i \in 1..Len(sresp.slots) :
            LET slot == sresp.slots[i]
            IN  /\ slot.day_of_week \in 0..(NumWeekdays - 1)
                /\ DayStart <= slot.start_time
                /\ slot.end_time <= DayEnd
                /\ slot.end_time - slot.start_time > MinSlot
                /\ \A s \in schedules :
                       (s.user_id \in WorkspaceMembers
                            /\ s.day_of_week = slot.day_of_week)
                          => ~(s.start_time < slot.end_time
                                 /\ slot.start_time < s.end_time)

====
